---- MODULE Spec2Model ----
(***************************************************************************)
(* Resumable paginated-fetch pipeline of JiraScraper                       *)
(* (src/src/scraper/JiraScraper.ts): scrapeProjects / scrapeProject,       *)
(* fetchIssues behind the axios-retry interceptor, the checkpoint files    *)
(* and the JSONL sink, together with process crashes and restarts.         *)
(* The retry interceptor is axios-retry ^4.0.0 as configured at lines      *)
(* 144-160; time is abstracted to the delay value of each backoff.         *)
(***************************************************************************)
EXTENDS Integers, Sequences, FiniteSets, TLC

(* ------------------------------ bounds -------------------------------- *)

\* number of records the remote holds, over all collections
MaxTotal == 5
\* config.maxResults (page size), scaled down
PageSize == 2
\* process starts after the first one (restarts after a crash, re-runs)
MaxRuns == 2
\* cap on stats.retriedRequests: the remote stops failing once a run has
\* counted this many
MaxFaults == 6
\* checkpoint store taken alone: largest index and total of a saved
\* checkpoint, and number of saves
StoreMax == 1
MaxSaves == 2
\* limiter taken alone: largest page handed to it and largest limit
GateTasks == 4

(* ------------------------- program constants -------------------------- *)

\* axiosRetry(..., { retries: 5 })
Retries == 5
\* axiosRetry.exponentialDelay: delayFactor, in milliseconds
DelayFactor == 100
\* the documented attempt ceiling ("5 attempts")
AttemptCeiling == 5
\* config.maxConcurrent, by default
MaxConcurrent == 5

\* config.projects
Projects == <<"A", "B">>

NumProjects == Len(Projects)

(* ------------------------------- state -------------------------------- *)

VARIABLES
  remoteTotal,    \* the remote: total number of records of each collection
  ckptFile,       \* disk: checkpointDir/<project>.json
  outFile,        \* disk: outputDir/<project>.jsonl, one line per element
  pc,             \* position of the process
  pi,             \* index in config.projects of the collection being scraped
  startAt,        \* scrapeProject: let startAt
  totalIssues,    \* scrapeProject: let totalIssues
  issues,         \* response.issues of the page in hand (record offsets)
  processedData,  \* result of Promise.all over the page
  wi,             \* position of the write loop in processedData
  retryCount,     \* axios-retry currentState.retryCount of the request
  fetchProject,   \* collection of the current fetchIssues call, "" before one
  attempts,       \* HTTP requests issued by the current fetchIssues call
  firstOutcome,   \* outcome of its first request, "" while there is none
  lastOutcome,    \* outcome of its latest request, "" while there is none
  retryNotes,     \* 'retry' events emitted during the current fetchIssues call
  lastDelay,      \* delay (ms) of the backoff in progress, 0 when none
  stats,          \* this.stats
  status,         \* per collection, its state in this run
  projectErrors,  \* 'project-error' events of this run (collection ids)
  reportedErrors, \* the error object carried by each of them, in the same order
  statsPrinted,   \* printStats() was reached in this run
  started,        \* collections handed to scrapeProject in this run, in order
  fetchOffsets,   \* startAt of every fetchIssues call for the current collection
  saves,          \* checkpoints saved for the current collection in this run
  loadedIdx,      \* lastProcessedIndex returned by loadCheckpoint, -1 before
  boundary,       \* per collection, lastProcessedIndex of the last completed save
  emptyAt,        \* per collection, the offset whose fetch returned an empty page
                  \* and ended the collection, -1 once a checkpoint is written
  runs,           \* number of process restarts so far
  response,       \* classification: the answer of the remote being classified
  verdict,        \* classification: SUCCESS, RETRYABLE or FATAL, "" before one
  pending,        \* checkpoint store: the checkpoint saveCheckpoint is writing
  loaded,         \* checkpoint store: result of the latest loadCheckpoint since the last save
  savedLog,       \* checkpoint store: the checkpoints saved so far, in order
  concurrency,    \* p-limit: the limit of this.limiter (config.maxConcurrent)
  queue,          \* p-limit: the tasks waiting to start, by position in the page
  active,         \* p-limit: the tasks started and not yet finished
  startOrder,     \* p-limit: the tasks in the order they were started
  finishOrder,    \* p-limit: the tasks in the order they finished
  results,        \* Promise.all: the results settled so far, by position
  ioErrors,       \* errors thrown by appendFile / writeFile so far in this run
  listeners       \* what is registered on the emitter for 'retry' and for 'error'

vars == <<remoteTotal, ckptFile, outFile, pc, pi, startAt, totalIssues,
          issues, processedData, wi, retryCount, fetchProject, attempts,
          firstOutcome, lastOutcome, retryNotes, lastDelay, stats, status, projectErrors, reportedErrors, statsPrinted, started, fetchOffsets,
          saves, loadedIdx, boundary, emptyAt, runs, response, verdict, pending,
          loaded,
          savedLog, concurrency, queue, active, startOrder, finishOrder, results,
          ioErrors, listeners>>

remote == <<remoteTotal>>
disk == <<ckptFile, outFile>>
batch == <<issues, processedData, wi>>
request == <<retryCount, fetchProject, attempts, firstOutcome, lastOutcome, retryNotes, lastDelay>>
report == <<status, projectErrors, reportedErrors, statsPrinted, started>>
classifier == <<response, verdict>>
store == <<pending, loaded, savedLog>>
gate == <<concurrency, queue, active, startOrder, finishOrder, results>>
\* what the pipeline steps leave alone: the state of the component harnesses
faults == <<ioErrors>>
wiring == <<listeners>>
aside == <<classifier, store, gate, faults, wiring>>

ProjectSet == {Projects[i] : i \in 1..NumProjects}

Min(a, b) == IF a < b THEN a ELSE b

RECURSIVE Pow2(_)
Pow2(n) == IF n = 0 THEN 1 ELSE 2 * Pow2(n - 1)

(* --------------------------- checkpoint store -------------------------- *)

\* interface Checkpoint
Checkpoint(p, idx, tot, done, ts) ==
  [project |-> p, lastProcessedIndex |-> idx, totalIssues |-> tot,
   completed |-> done, timestamp |-> ts]

NoCheckpoint == Checkpoint("", 0, 0, FALSE, "")

\* new Date().toISOString(), the clock being the number of restarts
toISOString(now) == ToString(now)

\* a member of a JSON object text: its key, the JSON type of its value and
\* the text of the value
Member(key, type, text) == [key |-> key, type |-> type, text |-> text]

\* a stringify that writes the two numbers in each other's place
stringify_Swapped(cp) ==
  <<Member("project", "string", cp.project),
    Member("lastProcessedIndex", "number", ToString(cp.totalIssues)),
    Member("totalIssues", "number", ToString(cp.lastProcessedIndex)),
    Member("completed", "literal", IF cp.completed THEN "true" ELSE "false"),
    Member("timestamp", "string", cp.timestamp)>>

\* JSON.stringify(checkpoint, null, 2): the members in key order
stringify(cp) ==
  <<Member("project", "string", cp.project),
    Member("lastProcessedIndex", "number", ToString(cp.lastProcessedIndex)),
    Member("totalIssues", "number", ToString(cp.totalIssues)),
    Member("completed", "literal", IF cp.completed THEN "true" ELSE "false"),
    Member("timestamp", "string", cp.timestamp)>>

\* the numbers a checkpoint can hold
Numbers == 0..(MaxTotal + PageSize)

\* JSON.parse of a number, a string or a literal
ParseNumber(text) == CHOOSE n \in Numbers : ToString(n) = text
ValueOf(m) ==
  CASE m.type = "string" -> m.text
    [] m.type = "number" -> ParseNumber(m.text)
    [] m.type = "literal" -> (m.text = "true")
MemberOf(text, key) == CHOOSE m \in {text[i] : i \in 1..Len(text)} : m.key = key

\* JSON.parse(data) of a checkpoint text
parse(text) ==
  [project |-> ValueOf(MemberOf(text, "project")),
   lastProcessedIndex |-> ValueOf(MemberOf(text, "lastProcessedIndex")),
   totalIssues |-> ValueOf(MemberOf(text, "totalIssues")),
   completed |-> ValueOf(MemberOf(text, "completed")),
   timestamp |-> ValueOf(MemberOf(text, "timestamp"))]

\* contents of a checkpoint file: absent, the JSON text of a checkpoint
\* (kept as the value JSON.parse reads from it), or the truncated file that
\* writeFile leaves between open(O_TRUNC) and write
Absent == [kind |-> "absent", cp |-> NoCheckpoint]
Truncated == [kind |-> "truncated", cp |-> NoCheckpoint]
Json(cp) == [kind |-> "json", cp |-> parse(stringify(cp))]

\* a loadCheckpoint that reads the file without the existsSync test
loadCheckpoint_NoDefault(file, p, now) ==
  IF file.kind = "json"
    THEN [ok |-> TRUE, cp |-> file.cp]
  ELSE [ok |-> FALSE, cp |-> NoCheckpoint]

\* a loadCheckpoint that catches the SyntaxError and starts from zero
loadCheckpoint_Lenient(file, p, now) ==
  IF file.kind = "json"
    THEN [ok |-> TRUE, cp |-> file.cp]
    ELSE [ok |-> TRUE, cp |-> Checkpoint(p, 0, 0, FALSE, toISOString(now))]

\* loadCheckpoint: zero state when the file does not exist, JSON.parse of
\* its text otherwise (a SyntaxError on a truncated file)
loadCheckpoint(file, p, now) ==
  IF file.kind = "absent"
    THEN [ok |-> TRUE, cp |-> Checkpoint(p, 0, 0, FALSE, toISOString(now))]
  ELSE IF file.kind = "json"
    THEN [ok |-> TRUE, cp |-> file.cp]
  ELSE [ok |-> FALSE, cp |-> NoCheckpoint]

(* ------------------------------ the remote ----------------------------- *)

\* the page the remote returns for (collection, startAt, maxResults)
RemotePage(p, s) ==
  [k \in 1..(Min(s + PageSize, remoteTotal[p]) - Min(s, remoteTotal[p])) |-> s + k - 1]

Success == "200"
Failures == {"404", "429", "500", "NETWORK", "TIMEOUT"}

\* a retryCondition that returns true for every error
retryCondition_Always(o) == TRUE

\* the AxiosError of a failed request: whether a response came, its status
\* (0 without a response) and error.code
AxiosError(has, st, code) == [hasResponse |-> has, status |-> st, code |-> code]

\* the error axios raises for each failure of the remote
ErrorOf(o) ==
  CASE o = "404" -> AxiosError(TRUE, 404, "ERR_BAD_REQUEST")
    [] o = "429" -> AxiosError(TRUE, 429, "ERR_BAD_REQUEST")
    [] o = "500" -> AxiosError(TRUE, 500, "ERR_BAD_RESPONSE")
    [] o = "NETWORK" -> AxiosError(FALSE, 0, "ECONNRESET")
    [] o = "TIMEOUT" -> AxiosError(FALSE, 0, "ECONNABORTED")

\* axios-retry: system error codes that is-retry-allowed refuses
RetryDenied == {"ENOTFOUND", "ENETUNREACH"}

\* axios-retry isNetworkError
isNetworkError(e) ==
  /\ ~e.hasResponse
  /\ e.code # ""
  /\ e.code \notin {"ERR_CANCELED", "ECONNABORTED"}
  /\ e.code \notin RetryDenied

\* axios-retry isRetryableError
isRetryableError(e) ==
  e.code # "ECONNABORTED" /\ (~e.hasResponse \/ (e.status >= 500 /\ e.status <= 599))

\* axios-retry isNetworkOrIdempotentRequestError, for the GET of fetchIssues
isNetworkOrIdempotentRequestError(e) == isNetworkError(e) \/ isRetryableError(e)

\* a verdict that leaves out the 429 clause
retryVerdict_No429(e) ==
  \/ isNetworkOrIdempotentRequestError(e)
  \/ (IF e.hasResponse THEN e.status ELSE 0) >= 500

\* the value retryCondition returns: isNetworkOrIdempotentRequestError(error)
\* || error.response?.status === 429 || (error.response?.status ?? 0) >= 500
retryVerdict(e) ==
  \/ isNetworkOrIdempotentRequestError(e)
  \/ (e.hasResponse /\ e.status = 429)
  \/ (IF e.hasResponse THEN e.status ELSE 0) >= 500

\* a retryCondition that also retries a 404
retryCondition_NotFoundToo(o) == retryVerdict(ErrorOf(o)) \/ o = "404"

\* retryCondition on a failure of the remote. A timeout (ECONNABORTED) is
\* excluded by axios-retry from network and idempotent-request errors and
\* has no status.
retryCondition(o) == retryVerdict(ErrorOf(o))

\* axios validateStatus: a response with a 2xx status resolves the request
validateStatus(st) == st >= 200 /\ st < 300

\* what the client does with an answer of the remote: resolve, retry after
\* a backoff (while retries remain), or reject
classification(resp) ==
  IF validateStatus(resp.status) THEN "SUCCESS"
  ELSE IF retryVerdict(AxiosError(TRUE, resp.status, resp.code)) THEN "RETRYABLE"
  ELSE "FATAL"

\* axiosRetry.exponentialDelay(retryNumber): 2^retryNumber * delayFactor plus
\* a random 0..20% of it; r is Math.random() in tenths
Tenths == {0, 9}
exponentialDelay(n, r) ==
  LET delay == Pow2(n) * DelayFactor IN delay + (delay * 2 * r) \div 100

(* ------------------------------ transform ------------------------------ *)

\* offsets whose record has a shape that makes the field mapping throw
Malformed == {1}

\* processIssue: the document of a record, or null when the mapping throws
processIssue(i) == [doc |-> i \notin Malformed, id |-> i]

\* a page element that is JSON null instead of a record
NullRecord == -1

\* processIssue rejects instead of resolving: on a null record issue.fields
\* throws inside the try, and the catch block throws again on issue.key
processIssueRejects(i) == i = NullRecord

Succeeded(data) == {k \in 1..Len(data) : data[k].doc}

(* -------------------------------- Init --------------------------------- *)

ZeroStats == [totalIssues |-> 0, successfulScrapes |-> 0, failedScrapes |-> 0,
              retriedRequests |-> 0]

\* the state of a freshly constructed scraper entering scrapeProjects
Fresh ==
  /\ pc = "load"
  /\ pi = 1
  /\ startAt = 0
  /\ totalIssues = 0
  /\ issues = <<>>
  /\ processedData = <<>>
  /\ wi = 1
  /\ retryCount = 0
  /\ fetchProject = ""
  /\ attempts = 0
  /\ firstOutcome = ""
  /\ lastOutcome = ""
  /\ retryNotes = <<>>
  /\ lastDelay = 0
  /\ stats = ZeroStats
  /\ status = [p \in ProjectSet |-> "NOT_STARTED"]
  /\ projectErrors = <<>>
  /\ reportedErrors = <<>>
  /\ statsPrinted = FALSE
  /\ started = <<>>
  /\ fetchOffsets = <<>>
  /\ saves = <<>>
  /\ loadedIdx = -1

\* no answer has been classified
NoResponse == [status |-> 0, code |-> ""]
ClassifierIdle == response = NoResponse /\ verdict = ""

\* no checkpoint has been saved or loaded through the store
NotLoaded == [project |-> "", from |-> "", ok |-> FALSE, cp |-> NoCheckpoint]
StoreIdle == pending = NoCheckpoint /\ loaded = NotLoaded /\ savedLog = <<>>

\* this.limiter = pLimit(this.config.maxConcurrent), nothing submitted
GateIdle ==
  /\ concurrency = MaxConcurrent
  /\ queue = <<>>
  /\ active = {}
  /\ startOrder = <<>>
  /\ finishOrder = <<>>
  /\ results = <<>>

\* the disk has raised no error
DiskSound == ioErrors = <<>>

\* what a 'retry' listener may do: there is none, it returns at once, it
\* returns after a long time, it throws
ListenerKinds == {"none", "quiet", "slow", "throws"}

\* main() of index.ts: scraper.on('retry' | 'error' | 'project-error', ...)
\* with listeners that log and return, before scrapeProjects()
Wired == listeners = [retry |-> "quiet", error |-> TRUE]

\* an empty disk
EmptyDisk ==
  /\ ckptFile = [p \in ProjectSet |-> Absent]
  /\ outFile = [p \in ProjectSet |-> <<>>]
  /\ boundary = [p \in ProjectSet |-> 0]
  /\ emptyAt = [p \in ProjectSet |-> -1]
  /\ runs = 0

Constructed ==
  /\ remoteTotal \in {t \in [ProjectSet -> 0..MaxTotal] : t["A"] + t["B"] = MaxTotal}
  /\ EmptyDisk
  /\ Fresh
  /\ ClassifierIdle
  /\ StoreIdle
  /\ GateIdle
  /\ DiskSound

Init == Constructed /\ Wired

(* --------------------------- scrapeProjects ---------------------------- *)

\* a loop that goes through config.projects from its end
Current_Reverse == Projects[NumProjects + 1 - pi]

\* for (const project of this.config.projects)
Current == Projects[pi]

\* the for loop of scrapeProjects after scrapeProject(project) has settled:
\* the next collection, or printStats() after the last one
NextProject(i) == i + 1

\* scrapeProjects without the try/catch around scrapeProject: a throw leaves
\* the loop and the function
Settle_NoCatch(failed) ==
  /\ status' = [status EXCEPT ![Current] = IF failed THEN "FAILED" ELSE "COMPLETED"]
  /\ projectErrors' = projectErrors
  /\ reportedErrors' = reportedErrors
  /\ pi' = IF failed THEN NumProjects + 1 ELSE NextProject(pi)
  /\ IF pi' > NumProjects
       THEN pc' = "done" /\ statsPrinted' = ~failed
       ELSE pc' = "load" /\ statsPrinted' = statsPrinted

\* EventEmitter.emit runs the listeners synchronously: what a listener
\* throws leaves emit
emitThrows(kind) == kind = "throws"

\* handleFetchError(error, ...) in the catch of fetchIssues, before its
\* `throw error`: it logs and ends with this.emit('error', { ... }); emit of
\* 'error' on an emitter without an 'error' listener throws
\* ERR_UNHANDLED_ERROR, which then leaves fetchIssues in place of error
handleFetchError(error) == IF listeners.error THEN error ELSE "ERR_UNHANDLED_ERROR"

\* the error object caught by scrapeProjects: "cause" is the error of the
\* failing operation itself (the AxiosError of the last request, the
\* SyntaxError of JSON.parse, the error of appendFile / writeFile), "listener"
\* what a 'retry' listener threw inside onRetry; a failed fetch passes
\* through handleFetchError
Thrown ==
  IF pc = "request"
    THEN handleFetchError(IF retryCount' # retryCount THEN "listener" ELSE "cause")
    ELSE "cause"

\* scrapeProject returned (failed = FALSE) or threw into the catch of
\* scrapeProjects, which emits 'project-error' { project, error } and lets
\* the loop go on
Settle(failed) ==
  /\ status' = [status EXCEPT ![Current] = IF failed THEN "FAILED" ELSE "COMPLETED"]
  /\ projectErrors' = IF failed THEN Append(projectErrors, Current) ELSE projectErrors
  /\ reportedErrors' = IF failed THEN Append(reportedErrors, Thrown) ELSE reportedErrors
  /\ pi' = NextProject(pi)
  /\ IF NextProject(pi) > NumProjects
       THEN pc' = "done" /\ statsPrinted' = TRUE
       ELSE pc' = "load" /\ statsPrinted' = statsPrinted

(* ---------------------------- scrapeProject ---------------------------- *)

\* a scrapeProject that always starts from the beginning
InitialStartAt_Zero(cp) == 0

\* a scrapeProject that resumes one page before the checkpoint
InitialStartAt_PageBack(cp) ==
  IF cp.lastProcessedIndex > PageSize THEN cp.lastProcessedIndex - PageSize ELSE 0

\* let startAt = checkpoint.lastProcessedIndex
InitialStartAt(cp) == cp.lastProcessedIndex

\* a scrapeProject without the completed skip
AlreadyCompleted_Never(cp) == FALSE

\* if (checkpoint.completed) return
AlreadyCompleted(cp) == cp.completed

\* scrapeProject up to the while loop: loadCheckpoint, the completed skip
LoadStep ==
  /\ pc = "load"
  /\ started' = Append(started, Current)
  /\ fetchOffsets' = <<>>
  /\ saves' = <<>>
  /\ LET r == loadCheckpoint(ckptFile[Current], Current, runs) IN
       IF ~r.ok
         THEN /\ Settle(TRUE)
              /\ UNCHANGED <<startAt, totalIssues, loadedIdx>>
       ELSE IF AlreadyCompleted(r.cp)
         THEN /\ Settle(FALSE)
              /\ loadedIdx' = r.cp.lastProcessedIndex
              /\ UNCHANGED <<startAt, totalIssues>>
       ELSE /\ startAt' = InitialStartAt(r.cp)
            /\ totalIssues' = 0
            /\ loadedIdx' = r.cp.lastProcessedIndex
            /\ status' = [status EXCEPT ![Current] = "FETCHING"]
            /\ pc' = "fetch"
            /\ UNCHANGED <<pi, projectErrors, reportedErrors, statsPrinted>>
  /\ UNCHANGED <<aside, remote, disk, batch, request, stats, boundary, emptyAt, runs>>

\* top of the while loop: fetchIssues(projectKey, startAt) issues client.get
CallFetch ==
  /\ pc = "fetch"
  /\ fetchOffsets' = Append(fetchOffsets, startAt)
  /\ retryCount' = 0
  /\ fetchProject' = Current
  /\ attempts' = 1
  /\ firstOutcome' = ""
  /\ lastOutcome' = ""
  /\ retryNotes' = <<>>
  /\ lastDelay' = 0
  /\ pc' = "request"
  /\ UNCHANGED <<aside, remote, disk, pi, startAt, totalIssues, batch, stats, report,
                 saves, loadedIdx, boundary, emptyAt, runs>>

\* a loop that takes no page for empty
IsEmptyPage_Never(page) == FALSE

\* !response || !response.issues || response.issues.length === 0
IsEmptyPage(page) == Len(page) = 0

\* a total taken from the first page of the collection and kept
ReportedTotal_First(held, total) == IF held = 0 THEN total ELSE held

\* totalIssues = response.total, on every non-empty page
ReportedTotal(held, total) == total

\* a loop that takes an empty page for the end of the collection and saves
\* a completed checkpoint before it breaks
RespondSuccess_MarksCompleted ==
  /\ pc = "request"
  /\ firstOutcome' = IF attempts = 1 THEN Success ELSE firstOutcome
  /\ lastOutcome' = Success
  /\ LET page == RemotePage(Current, startAt) IN
       IF IsEmptyPage(page)
         THEN /\ Settle(FALSE)
              /\ emptyAt' = [emptyAt EXCEPT ![Current] = startAt]
              /\ ckptFile' = [ckptFile EXCEPT ![Current] =
                                Json(Checkpoint(Current, startAt, totalIssues, TRUE,
                                                toISOString(runs)))]
              /\ UNCHANGED <<totalIssues, issues, started>>
         ELSE /\ totalIssues' = ReportedTotal(totalIssues, remoteTotal[Current])
              /\ issues' = page
              /\ status' = [status EXCEPT ![Current] = "PROCESSING"]
              /\ pc' = "process"
              /\ UNCHANGED <<ckptFile, emptyAt, pi, projectErrors, reportedErrors,
                             statsPrinted, started>>
  /\ UNCHANGED <<aside, remote, outFile, startAt, processedData, wi, retryCount,
                 fetchProject, attempts, retryNotes, lastDelay, stats, fetchOffsets, saves,
                 loadedIdx, boundary, runs>>

\* the request is answered 200: fetchIssues returns response.data; an empty
\* page breaks out of the loop, a non-empty one goes on to the transforms
RespondSuccess ==
  /\ pc = "request"
  /\ firstOutcome' = IF attempts = 1 THEN Success ELSE firstOutcome
  /\ lastOutcome' = Success
  /\ LET page == RemotePage(Current, startAt) IN
       IF IsEmptyPage(page)
         THEN /\ Settle(FALSE)
              /\ emptyAt' = [emptyAt EXCEPT ![Current] = startAt]
              /\ UNCHANGED <<totalIssues, issues, started>>
         ELSE /\ totalIssues' = ReportedTotal(totalIssues, remoteTotal[Current])
              /\ issues' = page
              /\ UNCHANGED emptyAt
              /\ status' = [status EXCEPT ![Current] = "PROCESSING"]
              /\ pc' = "process"
              /\ UNCHANGED <<pi, projectErrors, reportedErrors, statsPrinted, started>>
  /\ UNCHANGED <<aside, remote, disk, startAt, processedData, wi, retryCount, fetchProject,
                 attempts, retryNotes, lastDelay, stats, fetchOffsets, saves, loadedIdx,
                 boundary, runs>>

\* an onRetry that reports the zero-based retry index
onRetry_ZeroBased(notes, n) == Append(notes, n - 1)

\* onRetry: this.emit('retry', { retryCount, error })
onRetry(notes, n) == Append(notes, n)

\* the request fails with outcome o: the axios-retry response interceptor.
\* While retryCount < retries it calls retryCondition (which counts
\* stats.retriedRequests); on a retry it increments retryCount, computes the
\* delay, calls onRetry and re-issues the request after the delay; what
\* onRetry throws rejects the request in place of the retry. Otherwise the
\* error is rejected into fetchIssues' catch (handleFetchError, throw),
\* scrapeProject's catch (throw) and scrapeProjects' catch.
RespondFailure ==
  /\ pc = "request"
  /\ stats.retriedRequests < MaxFaults
  /\ \E o \in Failures :
       /\ firstOutcome' = IF attempts = 1 THEN o ELSE firstOutcome
       /\ lastOutcome' = o
       /\ stats' = IF retryCount < Retries
                     THEN [stats EXCEPT !.retriedRequests = @ + 1]
                     ELSE stats
       /\ IF retryCount < Retries /\ retryCondition(o)
            THEN /\ retryCount' = retryCount + 1
                 /\ retryNotes' = onRetry(retryNotes, retryCount + 1)
                 /\ IF emitThrows(listeners.retry)
                      THEN /\ lastDelay' = 0
                           /\ Settle(TRUE)
                           /\ UNCHANGED started
                      ELSE /\ \E r \in Tenths :
                                lastDelay' = exponentialDelay(retryCount + 1, r)
                           /\ pc' = "backoff"
                           /\ UNCHANGED <<pi, report>>
            ELSE /\ UNCHANGED <<retryCount, lastDelay, retryNotes, started>>
                 /\ Settle(TRUE)
  /\ UNCHANGED <<aside, remote, disk, startAt, totalIssues, batch, fetchProject, attempts,
                 fetchOffsets, saves,                 loadedIdx, boundary, emptyAt, runs>>

\* the backoff timer fires: the request is issued again
Reattempt ==
  /\ pc = "backoff"
  /\ lastDelay' = 0
  /\ attempts' = attempts + 1
  /\ pc' = "request"
  /\ UNCHANGED <<aside, remote, disk, pi, startAt, totalIssues, batch, retryCount,
                 fetchProject, firstOutcome, lastOutcome, retryNotes, stats, report, fetchOffsets, saves, loadedIdx, boundary, emptyAt, runs>>

\* Promise.all(issues.map(issue => limiter(() => processIssue(issue)))):
\* results by index; processIssue counts stats.totalIssues on success. The
\* remote of the pipeline serves records, with or without their fields, and
\* no null element; the limiter component takes pages with one.
ProcessPage ==
  /\ pc = "process"
  /\ \A k \in 1..Len(issues) : ~processIssueRejects(issues[k])
  /\ processedData' = [k \in 1..Len(issues) |-> processIssue(issues[k])]
  /\ stats' = [stats EXCEPT !.totalIssues = @ + Cardinality(Succeeded(processedData'))]
  /\ wi' = 1
  /\ pc' = "write"
  /\ UNCHANGED <<aside, remote, disk, pi, startAt, totalIssues, issues, request, report,
                 fetchOffsets, saves, loadedIdx, boundary, emptyAt, runs>>

\* a sink written with writeFile instead of appendFile
AppendLine_Overwrite(file, data) == IF data.doc THEN <<data.id>> ELSE file

\* a sink that puts the new line in front of the earlier content
AppendLine_Prepend(file, data) == IF data.doc THEN <<data.id>> \o file ELSE file

\* a write loop without the `if (data)` test: a line for a null result too
AppendLine_Unfiltered(file, data) == Append(file, data.id)

\* appendFile(outputFile, JSON.stringify(data) + '\n') for a non-null result
AppendLine(file, data) == IF data.doc THEN Append(file, data.id) ELSE file

\* one iteration of the write loop
WriteOne ==
  /\ pc = "write"
  /\ wi <= Len(processedData)
  /\ outFile' = [outFile EXCEPT ![Current] = AppendLine(@, processedData[wi])]
  /\ stats' = IF processedData[wi].doc
                THEN [stats EXCEPT !.successfulScrapes = @ + 1]
                ELSE [stats EXCEPT !.failedScrapes = @ + 1]
  /\ wi' = wi + 1
  /\ UNCHANGED <<aside, remote, ckptFile, pc, pi, startAt, totalIssues, issues, processedData,
                 request, report, fetchOffsets, saves, loadedIdx, boundary, emptyAt, runs>>

\* a cursor that advances by the page size whatever the page held
NextCursor_FullPage(s, page) == s + PageSize

\* a cursor that advances by the number of documents written
NextCursor_Documents(s, page) ==
  s + Cardinality({k \in 1..Len(page) : processIssue(page[k]).doc})

\* a loop that fetches the next page without moving the cursor
NextCursor_Hold(s, page) == s

\* startAt += issues.length
NextCursor(s, page) == s + Len(page)

\* after the write loop: the cursor advances and saveCheckpoint starts;
\* writeFile opens the checkpoint file with flag 'w', which truncates it
SaveOpen ==
  /\ pc = "write"
  /\ wi > Len(processedData)
  /\ startAt' = NextCursor(startAt, issues)
  /\ ckptFile' = [ckptFile EXCEPT ![Current] = Truncated]
  /\ emptyAt' = [emptyAt EXCEPT ![Current] = -1]
  /\ status' = [status EXCEPT ![Current] = "ADVANCING"]
  /\ pc' = "save"
  /\ UNCHANGED <<aside, remote, outFile, pi, totalIssues, batch, request, stats,
                 projectErrors, reportedErrors, statsPrinted, started, fetchOffsets, saves,
                 loadedIdx, boundary, runs>>

\* a checkpoint whose completed flag needs the cursor to pass the total
NewCheckpoint_Strict(p, s, tot, now) == Checkpoint(p, s, tot, s > tot, toISOString(now))

\* the checkpoint object handed to saveCheckpoint
NewCheckpoint(p, s, tot, now) == Checkpoint(p, s, tot, s >= tot, toISOString(now))

\* a loop that always finds more pages to come
hasMore_Always(s, tot) == TRUE

\* hasMore = startAt < totalIssues
hasMore(s, tot) == s < tot

\* a saveCheckpoint that is not awaited: the loop goes on while the file
\* is still being written
SaveWrite_NotAwaited ==
  /\ pc = "save"
  /\ IF startAt < totalIssues
       THEN /\ pc' = "delay"
            /\ UNCHANGED <<pi, report>>
       ELSE /\ Settle(FALSE)
            /\ UNCHANGED started
  /\ UNCHANGED <<aside, remote, disk, boundary, emptyAt, saves, startAt, totalIssues, batch,
                 request, stats, fetchOffsets, loadedIdx, runs>>

\* writeFile writes the JSON text; then hasMore = startAt < totalIssues
SaveWrite ==
  /\ pc = "save"
  /\ ckptFile' = [ckptFile EXCEPT
                    ![Current] = Json(NewCheckpoint(Current, startAt, totalIssues, runs))]
  /\ boundary' = [boundary EXCEPT ![Current] = startAt]
  /\ saves' = Append(saves, NewCheckpoint(Current, startAt, totalIssues, runs))
  /\ IF hasMore(startAt, totalIssues)
       THEN /\ pc' = "delay"
            /\ UNCHANGED <<pi, report>>
       ELSE /\ Settle(FALSE)
            /\ UNCHANGED started
  /\ UNCHANGED <<aside, remote, outFile, startAt, totalIssues, batch, request, stats,
                 fetchOffsets, loadedIdx, emptyAt, runs>>

\* await this.delay(this.config.rateLimitDelay)
Delay ==
  /\ pc = "delay"
  /\ status' = [status EXCEPT ![Current] = "FETCHING"]
  /\ pc' = "fetch"
  /\ UNCHANGED <<aside, remote, disk, pi, startAt, totalIssues, batch, request, stats,
                 projectErrors, reportedErrors, statsPrinted, started, fetchOffsets, saves,
                 loadedIdx,
                 boundary, emptyAt, runs>>

(* -------------------------- crash and restart -------------------------- *)

\* a new JiraScraper entering scrapeProjects: everything but the disk is new
FreshProcess(at) ==
  /\ pc' = at
  /\ pi' = 1
  /\ startAt' = 0
  /\ totalIssues' = 0
  /\ issues' = <<>>
  /\ processedData' = <<>>
  /\ wi' = 1
  /\ retryCount' = 0
  /\ fetchProject' = ""
  /\ attempts' = 0
  /\ firstOutcome' = ""
  /\ lastOutcome' = ""
  /\ retryNotes' = <<>>
  /\ lastDelay' = 0
  /\ stats' = ZeroStats
  /\ status' = [p \in ProjectSet |-> "NOT_STARTED"]
  /\ projectErrors' = <<>>
  /\ reportedErrors' = <<>>
  /\ statsPrinted' = FALSE
  /\ started' = <<>>
  /\ fetchOffsets' = <<>>
  /\ saves' = <<>>
  /\ loadedIdx' = -1

\* the process is killed at any point: memory is lost, the disk stays
Crash ==
  /\ pc \notin {"down", "done"}
  /\ runs < MaxRuns
  /\ FreshProcess("down")
  /\ UNCHANGED <<aside, remote, disk, boundary, emptyAt, runs>>

\* npm start again, after a crash or after a finished run
Restart ==
  /\ pc \in {"down", "done"}
  /\ runs < MaxRuns
  /\ runs' = runs + 1
  /\ FreshProcess("load")
  /\ UNCHANGED <<aside, remote, disk, boundary, emptyAt>>

\* the steps of a running process
Step ==
  \/ LoadStep
  \/ CallFetch
  \/ RespondSuccess
  \/ RespondFailure
  \/ Reattempt
  \/ ProcessPage
  \/ WriteOne
  \/ SaveOpen
  \/ SaveWrite
  \/ Delay

Next ==
  \/ Step
  \/ Crash
  \/ Restart

Spec == Init /\ [][Next]_vars

(* --------------------- the pipeline on a failing disk ------------------ *)

\* the error thrown for collection p by operation op on the batch fetched
\* at offset s
IoError(p, op, s) == [project |-> p, op |-> op, startAt |-> s]

\* an appendFile whose error is caught and logged: the loop goes on
AppendFails_Swallowed ==
  /\ pc = "write"
  /\ wi <= Len(processedData)
  /\ processedData[wi].doc
  /\ ioErrors' = Append(ioErrors, IoError(Current, "append", startAt))
  /\ wi' = wi + 1
  /\ UNCHANGED <<wiring, classifier, store, gate, remote, disk, pc, pi, startAt, totalIssues,
                 issues, processedData, request, stats, report, fetchOffsets, saves,
                 loadedIdx, boundary, emptyAt, runs>>

\* appendFile throws in the write loop: the catch of scrapeProject rethrows
\* and scrapeProjects reports the collection
AppendFails ==
  /\ pc = "write"
  /\ wi <= Len(processedData)
  /\ processedData[wi].doc
  /\ ioErrors' = Append(ioErrors, IoError(Current, "append", startAt))
  /\ Settle(TRUE)
  /\ UNCHANGED <<wiring, classifier, store, gate, remote, disk, startAt, totalIssues, batch,
                 request, stats, started, fetchOffsets, saves, loadedIdx, boundary, emptyAt, runs>>

\* writeFile of saveCheckpoint throws when it opens the file: the cursor
\* has advanced, the file is as it was
SaveOpenFails ==
  /\ pc = "write"
  /\ wi > Len(processedData)
  /\ ioErrors' = Append(ioErrors, IoError(Current, "save", startAt))
  /\ startAt' = NextCursor(startAt, issues)
  /\ Settle(TRUE)
  /\ UNCHANGED <<wiring, classifier, store, gate, remote, disk, totalIssues, batch,
                 request, stats, started, fetchOffsets, saves, loadedIdx, boundary, emptyAt, runs>>

\* writeFile of saveCheckpoint throws after the truncating open, when it
\* writes the text: the file stays empty
SaveWriteFails ==
  /\ pc = "save"
  /\ ioErrors' = Append(ioErrors, IoError(Current, "save", fetchOffsets[Len(fetchOffsets)]))
  /\ Settle(TRUE)
  /\ UNCHANGED <<wiring, classifier, store, gate, remote, disk, startAt, totalIssues, batch,
                 request, stats, started, fetchOffsets, saves, loadedIdx, boundary, emptyAt, runs>>

DiskNext ==
  \/ Step
  \/ AppendFails
  \/ SaveOpenFails
  \/ SaveWriteFails

\* one run of the pipeline on a disk whose writes may throw
SpecDisk == Init /\ [][DiskNext]_vars

(* --------------------------- one run, to its end ----------------------- *)

\* one run of the pipeline without interruption: the event loop takes every
\* step that is ready
SpecRun == Init /\ [][Step]_vars /\ WF_vars(Step)

(* ----------------------- the listeners of a caller ---------------------- *)
\* a caller of the class (the tests build scrapers with a 'retry' listener
\* only, or with none) registers what it likes before scrapeProjects()
ListenerInit ==
  /\ Constructed
  /\ listeners \in [retry : ListenerKinds, error : BOOLEAN]

\* one uninterrupted run of scrapeProjects under any listeners
SpecListeners == ListenerInit /\ [][Step]_vars

(* ------------------------- a remote that changes ----------------------- *)
\* between two fetches the collection gains or loses records: the next
\* response reports another total and serves the page of the records the
\* remote holds then
Drift ==
  /\ pc = "fetch"
  /\ \E t \in 0..MaxTotal :
       /\ t # remoteTotal[Current]
       /\ remoteTotal' = [remoteTotal EXCEPT ![Current] = t]
  /\ UNCHANGED <<aside, disk, pc, pi, startAt, totalIssues, batch, request, stats, report,
                 fetchOffsets, saves, loadedIdx, boundary, emptyAt, runs>>

\* the request is answered with an error that is not retried
RespondFatal == RespondFailure /\ pc' # "backoff"

\* npm start again after a finished run
Rerun == pc = "done" /\ Restart

DriftNext ==
  \/ LoadStep
  \/ CallFetch
  \/ RespondSuccess
  \/ RespondFatal
  \/ ProcessPage
  \/ WriteOne
  \/ SaveOpen
  \/ SaveWrite
  \/ Delay
  \/ Drift
  \/ Rerun

\* runs of scrapeProjects, one after the other, against a remote that changes
SpecDrift == Init /\ [][DriftNext]_vars

(* ------------------- component: retry classification ------------------- *)

\* the statuses the remote may answer with, and the error.code axios gives
\* to a response it rejects
StatusCodes == 200..599
ResponseCodes == {"ERR_BAD_REQUEST", "ERR_BAD_RESPONSE"}

\* a scraper with nothing on disk and an empty remote
Parked ==
  /\ remoteTotal = [p \in ProjectSet |-> 0]
  /\ EmptyDisk
  /\ Fresh

ClassifierInit == Parked /\ ClassifierIdle /\ StoreIdle /\ GateIdle /\ DiskSound /\ Wired

\* the remote answers 2xx: axios resolves, retryCondition is not called
ClassifyResolved ==
  /\ \E st \in StatusCodes :
       /\ validateStatus(st)
       /\ response' = [status |-> st, code |-> ""]
  /\ verdict' = classification(response')
  /\ UNCHANGED <<wiring, faults, remote, disk, pc, pi, startAt, totalIssues, batch, request, stats,
                 report, fetchOffsets, saves, loadedIdx, boundary, emptyAt, runs, store, gate>>

\* the remote answers with another status: the interceptor calls
\* retryCondition, which counts stats.retriedRequests and returns the verdict
ClassifyRejected ==
  /\ stats.retriedRequests < MaxFaults
  /\ \E st \in StatusCodes, code \in ResponseCodes :
       /\ ~validateStatus(st)
       /\ response' = [status |-> st, code |-> code]
  /\ stats' = [stats EXCEPT !.retriedRequests = @ + 1]
  /\ verdict' = classification(response')
  /\ UNCHANGED <<wiring, faults, remote, disk, pc, pi, startAt, totalIssues, batch, request,
                 report, fetchOffsets, saves, loadedIdx, boundary, emptyAt, runs, store, gate>>

ClassifierNext ==
  \/ ClassifyResolved
  \/ ClassifyRejected

SpecClassifier == ClassifierInit /\ [][ClassifierNext]_vars

(* --------------------- component: checkpoint store --------------------- *)

\* the checkpoints handed to saveCheckpoint
CheckpointValues ==
  {Checkpoint(p, i, t, d, toISOString(0)) :
     p \in ProjectSet, i \in 0..StoreMax, t \in 0..StoreMax, d \in BOOLEAN}

StoreInit == Parked /\ ClassifierIdle /\ StoreIdle /\ GateIdle /\ DiskSound /\ Wired

\* saveCheckpoint(cp): writeFile opens checkpointDir/<cp.project>.json with
\* flag 'w', which truncates it
StoreSaveOpen ==
  /\ pending = NoCheckpoint
  /\ Len(savedLog) < MaxSaves
  /\ \E cp \in CheckpointValues :
       /\ pending' = cp
       /\ ckptFile' = [ckptFile EXCEPT ![cp.project] = Truncated]
  /\ loaded' = NotLoaded
  /\ UNCHANGED <<wiring, faults, remote, outFile, pc, pi, startAt, totalIssues, batch, request, stats,
                 report, fetchOffsets, saves, loadedIdx, boundary, emptyAt, runs, savedLog,
                 classifier, gate>>

\* writeFile writes JSON.stringify(cp, null, 2) and saveCheckpoint returns
StoreSaveWrite ==
  /\ pending # NoCheckpoint
  /\ ckptFile' = [ckptFile EXCEPT ![pending.project] = Json(pending)]
  /\ savedLog' = Append(savedLog, pending)
  /\ pending' = NoCheckpoint
  /\ UNCHANGED <<wiring, faults, remote, outFile, pc, pi, startAt, totalIssues, batch, request, stats,
                 report, fetchOffsets, saves, loadedIdx, boundary, emptyAt, runs, loaded,
                 classifier, gate>>

\* loadCheckpoint(p), called while no save is in progress
StoreLoad ==
  /\ pending = NoCheckpoint
  /\ \E p \in ProjectSet :
       LET r == loadCheckpoint(ckptFile[p], p, runs) IN
         loaded' = [project |-> p, from |-> ckptFile[p].kind, ok |-> r.ok, cp |-> r.cp]
  /\ UNCHANGED <<wiring, faults, remote, disk, pc, pi, startAt, totalIssues, batch, request, stats,
                 report, fetchOffsets, saves, loadedIdx, boundary, emptyAt, runs, pending,
                 savedLog, classifier, gate>>

StoreNext ==
  \/ StoreSaveOpen
  \/ StoreSaveWrite
  \/ StoreLoad

SpecStore == StoreInit /\ [][StoreNext]_vars

(* ------------------ component: the concurrency limiter ----------------- *)

\* the pages handed to the limiter: consecutive records of the remote, one
\* of which may be null
RecordPages == {[k \in 1..n |-> s + k - 1] : n \in 1..GateTasks, s \in 0..1}
GatePages ==
  RecordPages \cup
    UNION {{[page EXCEPT ![j] = NullRecord] : j \in 1..Len(page)} : page \in RecordPages}

\* a slot of Promise.all that has not settled
Pending == [doc |-> FALSE, id |-> -1]

\* a limiter that starts a task while activeCount equals the limit
CanStart_OneOver(activeCount, limit) == activeCount <= limit

\* p-limit: if (activeCount < concurrency && queue.size > 0)
CanStart(activeCount, limit) == activeCount < limit

\* a Promise.all whose results are in order of completion
Settled_ByCompletion(res, k, v) ==
  LET j == CHOOSE j \in 1..Len(res) :
             res[j] = Pending /\ \A i \in 1..(j - 1) : res[i] # Pending
  IN [res EXCEPT ![j] = v]

\* Promise.all: the value of the k-th promise goes to position k
Settled(res, k, v) == [res EXCEPT ![k] = v]

\* a scraper whose limiter was built with any limit from 1 to GateTasks
GateInit ==
  /\ Parked
  /\ ClassifierIdle
  /\ StoreIdle
  /\ DiskSound
  /\ Wired
  /\ concurrency \in 1..GateTasks
  /\ queue = <<>>
  /\ active = {}
  /\ startOrder = <<>>
  /\ finishOrder = <<>>
  /\ results = <<>>

\* issues.map(issue => this.limiter(() => this.processIssue(issue))) on a
\* page in hand: every task is enqueued, in page order, before any starts
GateSubmit ==
  /\ pc = "load"
  /\ issues = <<>>
  /\ \E page \in GatePages :
       /\ issues' = page
       /\ queue' = [k \in 1..Len(page) |-> k]
       /\ results' = [k \in 1..Len(page) |-> Pending]
  /\ pc' = "process"
  /\ UNCHANGED <<wiring, faults, remote, disk, pi, startAt, totalIssues, processedData, wi, request,
                 stats, report, fetchOffsets, saves, loadedIdx, boundary, emptyAt, runs,
                 classifier, store, concurrency, active, startOrder, finishOrder>>

\* p-limit dequeues the task at the head of the queue and runs it:
\* activeCount++, processIssue counts stats.totalIssues on success
GateStart ==
  /\ queue # <<>>
  /\ CanStart(Cardinality(active), concurrency)
  /\ active' = active \cup {Head(queue)}
  /\ startOrder' = Append(startOrder, Head(queue))
  /\ queue' = Tail(queue)
  /\ stats' = IF processIssue(issues[Head(queue)]).doc
                THEN [stats EXCEPT !.totalIssues = @ + 1]
                ELSE stats
  /\ UNCHANGED <<wiring, faults, remote, disk, pc, pi, startAt, totalIssues, batch, request,
                 report, fetchOffsets, saves, loadedIdx, boundary, emptyAt, runs,
                 classifier, store, concurrency, finishOrder, results>>

\* a started task finishes, in any order: its promise settles with the
\* document or null, and next() frees its slot (activeCount--)
GateFinish ==
  /\ \E k \in active :
       /\ ~processIssueRejects(issues[k])
       /\ active' = active \ {k}
       /\ finishOrder' = Append(finishOrder, k)
       /\ results' = Settled(results, k, processIssue(issues[k]))
  /\ UNCHANGED <<wiring, faults, remote, disk, pc, pi, startAt, totalIssues, batch, request, stats,
                 report, fetchOffsets, saves, loadedIdx, boundary, emptyAt, runs,
                 classifier, store, concurrency, queue, startOrder>>

\* a started task rejects and next() frees its slot: Promise.all rejects at
\* once, the catch of scrapeProject rethrows and scrapeProjects reports the
\* collection; the limiter goes on with the tasks that are left
GateReject ==
  /\ \E k \in active :
       /\ processIssueRejects(issues[k])
       /\ active' = active \ {k}
       /\ finishOrder' = Append(finishOrder, k)
  /\ IF pc = "process"
       THEN Settle(TRUE)
       ELSE UNCHANGED <<pc, pi, status, projectErrors, reportedErrors, statsPrinted>>
  /\ UNCHANGED <<wiring, faults, remote, disk, startAt, totalIssues, batch, request, stats, started,
                 fetchOffsets, saves, loadedIdx, boundary, emptyAt, runs,
                 classifier, store, concurrency, queue, startOrder, results>>

\* every task has finished: await Promise.all(...) returns processedData
GateResolve ==
  /\ pc = "process"
  /\ Len(finishOrder) = Len(issues)
  /\ processedData' = results
  /\ wi' = 1
  /\ pc' = "write"
  /\ UNCHANGED <<remote, disk, pi, startAt, totalIssues, issues, request, stats,
                 report, fetchOffsets, saves, loadedIdx, boundary, emptyAt, runs, aside>>

GateNext ==
  \/ GateSubmit
  \/ GateStart
  \/ GateFinish
  \/ GateReject
  \/ GateResolve
  \/ WriteOne

\* the event loop runs every task that is ready
SpecGate == GateInit /\ [][GateNext]_vars /\ WF_vars(GateNext)

(* ------------------------------ properties ----------------------------- *)

Lines(p) == {outFile[p][j] : j \in 1..Len(outFile[p])}

Readable(p) == ckptFile[p].kind = "json"

\* what a reader of the checkpoint store sees as the collection's progress:
\* the saved index, 0 when there is no file, -1 when the file does not parse
PersistedIndex(p) ==
  IF ckptFile[p].kind = "json" THEN ckptFile[p].cp.lastProcessedIndex
  ELSE IF ckptFile[p].kind = "absent" THEN 0
  ELSE -1

\* C1: at-least-once durability. In every reachable state, across crashes
\* and restarts, when the persisted checkpoint of a collection has
\* lastProcessedIndex = k, every record at an offset below k whose transform
\* gives a document has at least one line in the collection's sink file.
C1_AtLeastOnce ==
  \A p \in ProjectSet :
    Readable(p) =>
      \A i \in 0..(ckptFile[p].cp.lastProcessedIndex - 1) :
        processIssue(i).doc => i \in Lines(p)

\* a collection checkpointed to its end over several pages, after a restart
\* that replayed a batch (a line is in the sink twice)
C1_Witness ==
  \E p \in ProjectSet :
    /\ Readable(p)
    /\ ckptFile[p].cp.lastProcessedIndex > PageSize
    /\ ckptFile[p].cp.completed
    /\ runs >= 1
    /\ Len(outFile[p]) > Cardinality(Lines(p))

\* C2: the checkpoint is saved once per non-empty page, after the page's
\* results are appended, and an interruption at any point inside a batch
\* leaves the persisted lastProcessedIndex at its value of the previous
\* batch boundary. Stated at the interruption: once the process is down,
\* every collection's persisted index is the index of its last completed save.
C2_InterruptKeepsBoundary ==
  pc = "down" => \A p \in ProjectSet : PersistedIndex(p) = boundary[p]

\* C3: saveCheckpoint is atomic with respect to a crash: after a crash at any
\* point, loadCheckpoint of every collection returns a complete checkpoint
\* (the previous one or the new one), never an unparseable file.
C3_SaveAtomic ==
  pc = "down" =>
    \A p \in ProjectSet : loadCheckpoint(ckptFile[p], p, runs).ok

\* C4: a run that loads a checkpoint with lastProcessedIndex = k > 0 and
\* completed = false issues its first fetch at startAt = k, and no fetch of
\* that run for the collection uses a startAt below k.
C4_ResumeAtCheckpoint ==
  (loadedIdx > 0 /\ fetchOffsets # <<>>) =>
    /\ fetchOffsets[1] = loadedIdx
    /\ \A j \in 1..Len(fetchOffsets) : fetchOffsets[j] >= loadedIdx

\* a resumed run that has issued two fetches for the collection
C4_Witness ==
  /\ loadedIdx > 0
  /\ Len(fetchOffsets) >= 2
  /\ runs >= 1

\* C5: with a deterministic source of fixed non-zero total, a run interrupted
\* any number of times and resumed to the end reaches the terminal checkpoint
\* of an uninterrupted run: lastProcessedIndex = totalIssues = the remote
\* total, completed = true. Stated for a run that ends with no failed request.
C5_SameTerminalCheckpoint ==
  (pc = "done" /\ stats.retriedRequests = 0) =>
    \A p \in ProjectSet :
      remoteTotal[p] > 0 =>
        /\ Readable(p)
        /\ ckptFile[p].cp.lastProcessedIndex = remoteTotal[p]
        /\ ckptFile[p].cp.totalIssues = remoteTotal[p]
        /\ ckptFile[p].cp.completed

\* C6: failure isolation. scrapeProjects hands every configured collection
\* to scrapeProject exactly once, in list order, whatever the outcome of the
\* collections before it, and reaches the end-of-run statistics report; a
\* running process that has not reached it can always take a step.
C6_FailureIsolation ==
  /\ Len(started) <= NumProjects
  /\ \A k \in 1..Len(started) : started[k] = Projects[k]
  /\ \A k \in 1..Len(projectErrors) : status[projectErrors[k]] = "FAILED"
  /\ pc = "done" =>
       /\ started = Projects
       /\ statsPrinted
       /\ \A p \in ProjectSet : status[p] \in {"COMPLETED", "FAILED"}
  /\ pc \notin {"done", "down"} => ~statsPrinted /\ ENABLED Step

\* the run ends with the first collection failed and the second scraped
\* to completion
C6_Witness ==
  /\ pc = "done"
  /\ status[Projects[1]] = "FAILED"
  /\ status[Projects[2]] = "COMPLETED"
  /\ Readable(Projects[2])
  /\ ckptFile[Projects[2]].cp.completed
  /\ statsPrinted

\* C7: a fetch answered with HTTP 404 is not retried (no further request; if
\* it was the first answer, one request in all and no retry notification),
\* its verdict is computed once, the collection is FAILED with a
\* project-error, and the loop goes on to the next collection untouched.
C7_NotFoundIsFatal ==
  lastOutcome = "404" =>
    /\ pc \in {"load", "fetch", "done"}
    /\ status[fetchProject] = "FAILED"
    /\ \E k \in 1..Len(projectErrors) : projectErrors[k] = fetchProject
    /\ firstOutcome = "404" => attempts = 1 /\ retryNotes = <<>>
    /\ (firstOutcome = "404" /\ Len(started) = 1 /\ Len(fetchOffsets) = 1) =>
         stats.retriedRequests = 1
    /\ pc = "load" => Current # fetchProject /\ status[Current] = "NOT_STARTED"

\* the first collection's first fetch was answered 404 and the second
\* collection has been loaded and is about to fetch
C7_Witness ==
  /\ lastOutcome = "404"
  /\ firstOutcome = "404"
  /\ fetchProject = Projects[1]
  /\ pc = "fetch"
  /\ Current = Projects[2]
  /\ status[Projects[2]] = "FETCHING"

\* C8: retry ceiling. One fetchIssues call makes at most 5 HTTP attempts; a
\* 6th attempt never occurs.
C8_AttemptCeiling == attempts <= AttemptCeiling

\* milliseconds in a time unit: the library's delay factor, or a second
TimeUnits == {DelayFactor, 10 * DelayFactor}

\* C9: backoff schedule. The wait before retry n is exactly base * 2^(n-1)
\* with base = 2 time units (2, 4, 8, 16 before attempts 2..5), with no other
\* term added, whichever of the two time units is meant.
C9_BackoffSchedule ==
  pc = "backoff" =>
    \E unit \in TimeUnits : lastDelay = 2 * unit * Pow2(retryCount - 1)

C11_TransportRetried ==
  (lastOutcome \in {"NETWORK", "TIMEOUT"} /\ status[fetchProject] = "FAILED") =>
    attempts > Retries

\* number of pages of a collection of t records
PageCount(t) == (t + PageSize - 1) \div PageSize

\* C13: an uninterrupted scrape of a collection of T > 0 records from an
\* empty checkpoint issues exactly ceil(T / PageSize) fetches, at offsets 0,
\* PageSize, 2 * PageSize, ..., each returning a full page but for the last,
\* and performs as many saves, whose lastProcessedIndex values are PageSize,
\* 2 * PageSize, ..., T and whose completed flag is true in the last save
\* only (250 records by pages of 100: 3 fetches of 100, 100, 50 and saves
\* 100, 200, 250 with completed false, false, true).
C13_PagedRun ==
  (fetchOffsets # <<>> /\ loadedIdx = 0 /\ status[fetchProject] = "COMPLETED"
     /\ remoteTotal[fetchProject] > 0) =>
    LET T == remoteTotal[fetchProject]
        n == PageCount(T)
    IN /\ Len(fetchOffsets) = n
       /\ Len(saves) = n
       /\ \A k \in 1..n :
            /\ fetchOffsets[k] = (k - 1) * PageSize
            /\ saves[k].lastProcessedIndex = Min(k * PageSize, T)
            /\ saves[k].lastProcessedIndex - fetchOffsets[k] = Min(PageSize, T - fetchOffsets[k])
            /\ saves[k].totalIssues = T
            /\ saves[k].completed = (k = n)

C13_Witness ==
  /\ fetchOffsets # <<>> /\ loadedIdx = 0 /\ status[fetchProject] = "COMPLETED"
  /\ Len(saves) = 3
  /\ saves[3].lastProcessedIndex - fetchOffsets[3] < PageSize
  /\ <<saves[1].completed, saves[2].completed, saves[3].completed>> = <<FALSE, FALSE, TRUE>>

\* the persisted checkpoint of p says completed
PersistedCompleted(p) == Readable(p) /\ ckptFile[p].cp.completed

\* positions of scrapeProject inside the while loop
InLoop == {"fetch", "request", "backoff", "process", "write", "save", "delay"}

\* C14: a collection whose loaded checkpoint says completed is skipped: the
\* process is never inside the fetch loop of a collection whose persisted
\* checkpoint is completed, and once a completed checkpoint is persisted no
\* step of this or of a later run changes that collection's checkpoint or
\* its sink.
C14_CompletedSkip ==
  /\ [](pc \in InLoop => ~PersistedCompleted(Current))
  /\ [][\A p \in ProjectSet :
          PersistedCompleted(p) => /\ ckptFile'[p] = ckptFile[p]
                                   /\ outFile'[p] = outFile[p]]_vars

\* a later run has loaded a completed checkpoint of a non-empty collection
\* and moved on without a fetch
C14_Witness ==
  /\ runs >= 1
  /\ pc = "load" /\ pi = 2
  /\ started = <<Projects[1]>>
  /\ PersistedCompleted(Projects[1])
  /\ loadedIdx = remoteTotal[Projects[1]] /\ loadedIdx > 0
  /\ status[Projects[1]] = "COMPLETED"
  /\ fetchOffsets = <<>> /\ fetchProject = ""

\* C17: in every persisted checkpoint, completed is true exactly when
\* lastProcessedIndex >= totalIssues for an observed total greater than 0.
C17_CompletedFlag ==
  \A p \in ProjectSet :
    Readable(p) =>
      LET cp == ckptFile[p].cp IN
        cp.completed <=> (cp.totalIssues > 0 /\ cp.lastProcessedIndex >= cp.totalIssues)

\* both cases are on disk: a finished collection and one saved part-way
C17_Witness ==
  /\ PersistedCompleted(Projects[1])
  /\ ckptFile[Projects[1]].cp.lastProcessedIndex = ckptFile[Projects[1]].cp.totalIssues
  /\ Readable(Projects[2])
  /\ ~ckptFile[Projects[2]].cp.completed
  /\ ckptFile[Projects[2]].cp.lastProcessedIndex < ckptFile[Projects[2]].cp.totalIssues

\* f is a prefix of g
IsPrefix(f, g) == Len(f) <= Len(g) /\ SubSeq(g, 1, Len(f)) = f

\* C18: the sink is append-only. Across every step, crash and restart the
\* earlier content of each sink is a prefix of its later content, and a step
\* adds at most one line: the line of the non-null document the write loop
\* is at.
C18_AppendOnly ==
  [][\A p \in ProjectSet :
       /\ IsPrefix(outFile[p], outFile'[p])
       /\ Len(outFile'[p]) <= Len(outFile[p]) + 1
       /\ Len(outFile'[p]) = Len(outFile[p]) + 1 =>
            /\ pc = "write" /\ p = Current
            /\ processedData[wi].doc
            /\ outFile'[p][Len(outFile'[p])] = processedData[wi].id]_vars

\* a restarted run has appended a line behind the lines of an earlier run
C18_Witness ==
  /\ runs >= 1
  /\ pc = "write" /\ wi = 2
  /\ processedData[1].doc
  /\ Len(outFile[Current]) >= 2
  /\ outFile[Current][Len(outFile[Current])] = processedData[1].id
  /\ loadedIdx = 0

\* C12: the classification of an answer is a function of its HTTP status
\* alone: 429 and every status >= 500 are RETRYABLE, every other status in
\* [400, 499] is FATAL, every status in [200, 299] is SUCCESS, whatever the
\* error code and however many answers were classified before.
C12_StatusTable ==
  verdict # "" =>
    LET st == response.status IN
      /\ (st = 429 \/ st >= 500) => verdict = "RETRYABLE"
      /\ (st \in 400..499 /\ st # 429) => verdict = "FATAL"
      /\ st \in 200..299 => verdict = "SUCCESS"

\* a 429 classified RETRYABLE after earlier answers have been classified
C12_Witness ==
  /\ response.status = 429
  /\ verdict = "RETRYABLE"
  /\ stats.retriedRequests >= 2

\* the checkpoint of the latest completed save for p, NoCheckpoint if none
LastSaved(p) ==
  LET idx == {i \in 1..Len(savedLog) : savedLog[i].project = p} IN
    IF idx = {} THEN NoCheckpoint
    ELSE savedLog[CHOOSE i \in idx : \A j \in idx : j <= i]

\* C15: loadCheckpoint(p) called after a completed saveCheckpoint(C) for p,
\* with no save in between, returns a checkpoint equal to C field by field;
\* C is the latest checkpoint saved for p, so a later save overwrites an
\* earlier one.
C15_RoundTrip ==
  (loaded # NotLoaded /\ LastSaved(loaded.project) # NoCheckpoint) =>
    loaded.ok /\ loaded.cp = LastSaved(loaded.project)

\* two different checkpoints were saved for one collection and the load
\* returned the second
C15_Witness ==
  /\ Len(savedLog) = 2
  /\ savedLog[1].project = savedLog[2].project
  /\ savedLog[1].lastProcessedIndex < savedLog[2].lastProcessedIndex
  /\ savedLog[2].completed
  /\ loaded.project = savedLog[2].project
  /\ loaded.cp = savedLog[2]

\* C16: loadCheckpoint of a collection with no persisted checkpoint does
\* not fail, returns the zero state (the collection id, lastProcessedIndex
\* 0, totalIssues 0, completed false) and creates no checkpoint file.
C16_DefaultCheckpoint ==
  loaded.from = "absent" =>
    /\ loaded.ok
    /\ loaded.cp.project = loaded.project
    /\ loaded.cp.lastProcessedIndex = 0
    /\ loaded.cp.totalIssues = 0
    /\ loaded.cp.completed = FALSE
    /\ ckptFile[loaded.project] = Absent

\* the load of a collection without checkpoint, next to one that has one
C16_Witness ==
  /\ loaded.from = "absent"
  /\ loaded.project = Projects[2]
  /\ loaded.ok
  /\ ckptFile[Projects[1]].kind = "json"
  /\ ckptFile[Projects[2]] = Absent

\* the documents of a list of results, in order, nulls left out
RECURSIVE DocIds(_)
DocIds(data) ==
  IF data = <<>> THEN <<>>
  ELSE (IF Head(data).doc THEN <<Head(data).id>> ELSE <<>>) \o DocIds(Tail(data))

\* C19: for every limit from 1 upwards and every order in which the
\* transforms finish, the results handed to the write loop are the
\* transforms of the page's records in fetch order, and the lines appended
\* for the page are its documents in fetch order with the nulls removed: the
\* same as with a limit as large as the page.
C19_OrderPreserved ==
  pc = "write" =>
    /\ processedData = [k \in 1..Len(issues) |-> processIssue(issues[k])]
    /\ stats.totalIssues = Cardinality(Succeeded(processedData))
    /\ outFile[Current] = DocIds(SubSeq(processedData, 1, wi - 1))

\* a page of three with a null, under a limit of two, whose transforms
\* finished out of fetch order, has been written
C19_Witness ==
  /\ pc = "write" /\ wi > Len(processedData)
  /\ Len(issues) = 3
  /\ concurrency = 2
  /\ finishOrder # startOrder
  /\ Len(outFile[Current]) = 2

\* C20: at every instant at most maxConcurrent transforms are started and
\* not finished; tasks start in submission order, the others waiting in the
\* queue in that order; and every submitted task is eventually started.
C20_ConcurrencyGate ==
  /\ [](/\ Cardinality(active) <= concurrency
        /\ startOrder \o queue = [k \in 1..Len(issues) |-> k]
        /\ active \subseteq {startOrder[i] : i \in 1..Len(startOrder)})
  /\ (queue # <<>>) ~> (queue = <<>>)

\* every slot is taken and a task waits, after an earlier task has finished
C20_Witness ==
  /\ queue # <<>>
  /\ Cardinality(active) = concurrency
  /\ concurrency >= 2
  /\ finishOrder # <<>>

\* C21: the transform never fails the pipeline: whatever the records of a
\* page (fields missing, null record), no transform makes its collection
\* FAILED or produces a project-error report.
C21_TransformNeverFails ==
  /\ \A p \in ProjectSet : status[p] # "FAILED"
  /\ projectErrors = <<>>

\* position of collection p in config.projects
IndexOf(p) == CHOOSE i \in 1..NumProjects : Projects[i] = p

\* C22: a persistence failure is never swallowed. Whenever appendFile or
\* the checkpoint write has thrown for a collection, that collection is
\* FAILED with a project-error report, no checkpoint at or beyond the failed
\* batch is on disk, and the run has left the collection for good (no
\* further fetch for it).
C22_PersistenceFailureFatal ==
  \A k \in 1..Len(ioErrors) :
    LET e == ioErrors[k] IN
      /\ status[e.project] = "FAILED"
      /\ \E j \in 1..Len(projectErrors) : projectErrors[j] = e.project
      /\ Readable(e.project) => ckptFile[e.project].cp.lastProcessedIndex <= e.startAt
      /\ pi > IndexOf(e.project)
      /\ fetchProject = e.project =>
           fetchOffsets = <<>> \/ fetchOffsets[Len(fetchOffsets)] = e.startAt

\* both collections ended on a persistence failure, one in the append of a
\* second page and one in the checkpoint write
C22_Witness ==
  /\ pc = "done"
  /\ Len(ioErrors) = 2
  /\ ioErrors[1].op = "append" /\ ioErrors[1].startAt > 0
  /\ ioErrors[2].op = "save"
  /\ projectErrors = Projects

\* number of lines of the sink of p that hold record i
Count(p, i) == Cardinality({j \in 1..Len(outFile[p]) : outFile[p][j] = i})

\* C23: duplication is bounded. The lines of a sink beyond one per record
\* number at most one page for each restart, and no step ever appends a
\* record that lies below the last checkpoint saved for its collection.
C23_BoundedDuplication ==
  /\ [](\A p \in ProjectSet :
          Len(outFile[p]) - Cardinality(Lines(p)) <= runs * PageSize)
  /\ [][\A p \in ProjectSet :
          Len(outFile'[p]) > Len(outFile[p]) =>
            outFile'[p][Len(outFile'[p])] >= boundary[p]]_vars

\* a record of the batch in flight at a crash is on the sink twice, behind
\* a checkpointed batch whose records are there once
C23_Witness ==
  \E p \in ProjectSet :
    /\ runs >= 1
    /\ boundary[p] = PageSize
    /\ \E i \in Lines(p) : i >= boundary[p] /\ Count(p, i) = 2
    /\ \A i \in Lines(p) : i < boundary[p] => Count(p, i) = 1

\* C24: a fetch stops retrying. While a request or a backoff is pending one
\* of them always ends; once the request after the last retry has failed
\* the collection is FAILED and reported; and a failure whose verdict is not
\* to retry leaves no request or backoff behind it and fails the collection
\* at once.
C24_RetriesEnd ==
  /\ [](/\ attempts <= Retries + 1
        /\ (attempts = Retries + 1 /\ pc # "request") =>
             (lastOutcome = Success \/
                /\ status[fetchProject] = "FAILED"
                /\ \E j \in 1..Len(projectErrors) : projectErrors[j] = fetchProject)
        /\ (lastOutcome \in Failures /\ ~retryVerdict(ErrorOf(lastOutcome))) =>
             /\ pc \notin {"request", "backoff"}
             /\ status[fetchProject] = "FAILED"
             /\ \E j \in 1..Len(projectErrors) : projectErrors[j] = fetchProject)
  /\ (pc \in {"request", "backoff"}) ~> (pc \notin {"request", "backoff"})

\* every attempt of a fetch was answered 500 and the collection has failed
C24_Witness ==
  /\ attempts = Retries + 1
  /\ firstOutcome = "500" /\ lastOutcome = "500"
  /\ retryCount = Retries
  /\ status[fetchProject] = "FAILED"
  /\ pc = "load"

\* C25: cursor arithmetic. For every batch saved for the collection in
\* hand, the saved lastProcessedIndex is the offset of its fetch plus the
\* number of records the page held, it is above the value saved or loaded
\* before, and it is the offset of the next fetch; the offsets of the
\* fetches never decrease; between a save and the next fetch startAt is the
\* saved value.
C25_CursorArithmetic ==
  fetchOffsets # <<>> =>
    /\ Len(saves) <= Len(fetchOffsets)
    /\ fetchOffsets[1] = loadedIdx
    /\ \A k \in 1..Len(saves) :
         /\ saves[k].lastProcessedIndex =
              fetchOffsets[k] + Len(RemotePage(fetchProject, fetchOffsets[k]))
         /\ saves[k].lastProcessedIndex >
              (IF k = 1 THEN loadedIdx ELSE saves[k - 1].lastProcessedIndex)
         /\ k < Len(fetchOffsets) => fetchOffsets[k + 1] = saves[k].lastProcessedIndex
    /\ \A k \in 1..(Len(fetchOffsets) - 1) : fetchOffsets[k] <= fetchOffsets[k + 1]
    /\ (saves # <<>> /\ pc \in {"delay", "fetch"}) =>
         startAt = saves[Len(saves)].lastProcessedIndex

\* a resumed collection has saved a batch whose page was shorter than the
\* page size
C25_Witness ==
  /\ loadedIdx > 0
  /\ Len(saves) = 1
  /\ saves[1].lastProcessedIndex - fetchOffsets[1] < PageSize
  /\ saves[1].lastProcessedIndex = startAt

\* C26: within a collection the cycle is sequential. While a fetch is in
\* progress every earlier batch of the collection has been saved and the
\* collection is FETCHING; while a page is transformed, appended or saved
\* its fetch has returned it (the page in hand is the page at the offset of
\* the latest fetch, answered 200) and the collection is not FETCHING.
C26_SequentialCycle ==
  /\ pc \in {"request", "backoff"} =>
       /\ Len(saves) = Len(fetchOffsets) - 1
       /\ status[Current] = "FETCHING"
       /\ fetchOffsets[Len(fetchOffsets)] = startAt
  /\ pc \in {"process", "write", "save"} =>
       /\ lastOutcome = Success
       /\ fetchProject = Current
       /\ issues = RemotePage(Current, fetchOffsets[Len(fetchOffsets)])
       /\ Len(saves) = Len(fetchOffsets) - 1
       /\ status[Current] \in {"PROCESSING", "ADVANCING"}
  /\ pc \in InLoop => (pc \in {"process", "write"} <=> status[Current] = "PROCESSING")

\* the second fetch of a collection is being retried, the first batch saved
C26_Witness ==
  /\ pc = "backoff"
  /\ Len(fetchOffsets) = 2
  /\ Len(saves) = 1
  /\ saves[1].lastProcessedIndex = startAt
  /\ status[Current] = "FETCHING"

\* a collection has reached COMPLETED or FAILED in this run
Finished(p) == status[p] \in {"COMPLETED", "FAILED"}

\* C27: collections are processed one at a time in the order of the
\* configured list. A collection has left NOT_STARTED only if every
\* collection before it has finished, at most one collection is between
\* the two, and a step changes the checkpoint or the sink of the
\* collection in hand only, all collections before it having finished.
C27_OneCollectionAtATime ==
  /\ [](/\ \A i \in 1..NumProjects :
             status[Projects[i]] # "NOT_STARTED" =>
               \A j \in 1..(i - 1) : Finished(Projects[j])
        /\ Cardinality({p \in ProjectSet :
                          status[p] # "NOT_STARTED" /\ ~Finished(p)}) <= 1)
  /\ [][\A p \in ProjectSet :
          (ckptFile'[p] # ckptFile[p] \/ outFile'[p] # outFile[p]) =>
            /\ p = Current
            /\ status[p] \in {"PROCESSING", "ADVANCING"}
            /\ \A j \in 1..(pi - 1) : Finished(Projects[j])]_vars

\* the second collection is being written after the first has failed
C27_Witness ==
  /\ pi = 2
  /\ pc = "write" /\ wi > 1
  /\ status[Projects[1]] = "FAILED"
  /\ outFile[Projects[2]] # <<>>
  /\ outFile[Projects[1]] # <<>>

\* C28: the retried-requests counter counts retries only. During the first
\* fetch of a run, and until the next collection is loaded, the counter
\* equals the number of 'retry' notifications emitted: an outcome that is
\* not retried leaves it unchanged.
C28_CounterCountsRetries ==
  (started = <<Projects[1]>> /\ Len(fetchOffsets) = 1) =>
    stats.retriedRequests = Len(retryNotes)

\* C29: a fetch that ends its collection. An empty page ends the collection
\* COMPLETED with no project-error report, a fatal fetch error ends it FAILED
\* with one, and the step that ends it appends no record and writes no
\* checkpoint; an empty page is never transformed, written or saved.
C29_FetchEndsCollection ==
  /\ []((fetchOffsets # <<>> /\ lastOutcome = Success /\ pc # "request"
           /\ RemotePage(fetchProject, fetchOffsets[Len(fetchOffsets)]) = <<>>) =>
          /\ status[fetchProject] = "COMPLETED"
          /\ \A j \in 1..Len(projectErrors) : projectErrors[j] # fetchProject
          /\ Len(saves) = Len(fetchOffsets) - 1)
  /\ [][(pc = "request" /\ pc' \in {"load", "done"}) =>
          /\ disk' = disk
          /\ saves' = saves
          /\ IF lastOutcome' = Success
               THEN /\ status'[Current] = "COMPLETED"
                    /\ projectErrors' = projectErrors
               ELSE /\ status'[Current] = "FAILED"
                    /\ projectErrors' = Append(projectErrors, Current)]_vars

\* the first collection ended on an empty page, the second on a fatal error
C29_Witness ==
  /\ pc = "done"
  /\ remoteTotal[Projects[1]] = 0
  /\ status[Projects[1]] = "COMPLETED"
  /\ status[Projects[2]] = "FAILED"
  /\ projectErrors = <<Projects[2]>>
  /\ lastOutcome = "404"
  /\ ckptFile[Projects[1]] = Absent
  /\ outFile[Projects[2]] = <<>>

\* C30: the pacing delay is taken exactly when more pages remain after a
\* saved batch. While it runs, the batch before it is saved and readable
\* with lastProcessedIndex = startAt < total and no backoff is pending; the
\* step out of a save enters the delay exactly when startAt < total; the
\* delay is entered from a save only and left for the next fetch only; a
\* fetch starts after the load (the first one) or after the delay; and a
\* backoff is left for its request only.
C30_PacingDelay ==
  /\ [](pc = "delay" =>
          /\ saves # <<>>
          /\ saves[Len(saves)].lastProcessedIndex = startAt
          /\ ~saves[Len(saves)].completed
          /\ startAt < totalIssues
          /\ Readable(Current) /\ ckptFile[Current].cp.lastProcessedIndex = startAt
          /\ lastDelay = 0)
  /\ [][/\ (pc = "save" /\ pc' # "down") => (pc' = "delay" <=> startAt < totalIssues)
        /\ (pc # "delay" /\ pc' = "delay") => pc = "save"
        /\ (pc = "delay" /\ pc' # "delay") => pc' \in {"fetch", "down"}
        /\ (pc # "fetch" /\ pc' = "fetch") =>
             \/ pc = "load" /\ fetchOffsets' = <<>>
             \/ pc = "delay" /\ fetchOffsets # <<>>
        /\ (pc = "backoff" /\ pc' # "backoff") => pc' \in {"request", "down"}]_vars

\* the delay between the second and the third batch of a collection
C30_Witness ==
  /\ pc = "delay"
  /\ Len(saves) = 2
  /\ Len(fetchOffsets) = 2
  /\ startAt = 2 * PageSize
  /\ startAt < totalIssues

(* ------------------------------- C31 ----------------------------------- *)
\* C31: emitting the retry notification does not alter the control flow of
\* the fetch. Whatever the 'retry' listeners do (none, slow, throwing), a
\* fetchIssues call fails as it does with no listener: on an answer that is
\* not retried, or after the initial attempt and all Retries retries.
C31_ListenerTransparent ==
  (/\ fetchProject # ""
   /\ lastOutcome \in Failures
   /\ status[fetchProject] = "FAILED")
  => \/ ~retryCondition(lastOutcome)
     \/ attempts = Retries + 1

(* ------------------------------- C32 ----------------------------------- *)
\* C32: when a collection fails, the 'project-error' report carries the
\* identifier of that collection and the underlying cause, the error of the
\* failing fetch or persistence operation itself, whether or not a listener
\* is registered for 'error' (the 'retry' listeners being ones that return).
C32_ReportCarriesCause ==
  ~emitThrows(listeners.retry)
  => /\ Len(reportedErrors) = Len(projectErrors)
     /\ \A k \in 1..Len(projectErrors) :
          /\ status[projectErrors[k]] = "FAILED"
          /\ reportedErrors[k] = "cause"

(* ------------------------------- C33 ----------------------------------- *)
\* the collections started in this run that hold a record whose transform
\* yields null
WithMalformed ==
  {k \in 1..Len(started) : \E i \in Malformed : i < remoteTotal[started[k]]}

\* C33: a record whose transform yields null is dropped and counted once as
\* a failure. The write loop passes it by appending nothing, adding one to
\* failedScrapes and going on to the next result; no sink ever holds it; it
\* is counted at most once per run (it is not retried); once the write loop
\* has ended its siblings in the page are on the sink, and the cursor has
\* advanced by the full length of the page.
C33_NullDropped ==
  /\ [](/\ \A p \in ProjectSet : Lines(p) \cap Malformed = {}
        /\ stats.failedScrapes <= Cardinality(WithMalformed)
        /\ pc \in {"save", "delay"} =>
             /\ \A k \in 1..Len(issues) :
                  issues[k] \notin Malformed => issues[k] \in Lines(Current)
             /\ startAt = fetchOffsets[Len(fetchOffsets)] + Len(issues))
  /\ [][(/\ pc = "write"
         /\ pc' = "write"
         /\ wi <= Len(processedData)
         /\ ~processedData[wi].doc)
        => /\ outFile' = outFile
           /\ stats'.failedScrapes = stats.failedScrapes + 1
           /\ stats'.successfulScrapes = stats.successfulScrapes
           /\ wi' = wi + 1]_vars

\* a page of two records, the second without its fields, has been written
\* and checkpointed: one line on the sink, one failure counted, and the
\* checkpoint two records on
C33_Witness ==
  /\ pc = "delay"
  /\ Len(issues) = PageSize
  /\ \E k \in 1..Len(issues) : issues[k] \in Malformed
  /\ Len(outFile[Current]) = PageSize - 1
  /\ stats.failedScrapes = 1
  /\ Readable(Current)
  /\ ckptFile[Current].cp.lastProcessedIndex = PageSize

(* ------------------------------- C34 ----------------------------------- *)
\* C34: statistics consistency. At every batch boundary (the write loop of
\* a page has ended, up to the transform of the next page) the records-seen
\* counter equals the transform successes plus the transform failures.
C34_StatsConsistent ==
  pc \in {"save", "delay", "fetch", "request", "backoff", "load", "done"}
  => stats.totalIssues = stats.successfulScrapes + stats.failedScrapes

(* ------------------------------- C35 ----------------------------------- *)
\* C35: a collection whose fetch at the checkpoint's offset returns an empty
\* page leaves its checkpoint and its sink as they were. The step that
\* receives the empty page ends the collection and changes no file; from
\* then on, until the collection yields a page again, its checkpoint is
\* absent or not completed with lastProcessedIndex at that offset, and the
\* first fetch of the collection in every later run is at that offset again.
C35_EmptyPageLeavesStore ==
  /\ [](\A p \in ProjectSet :
          emptyAt[p] >= 0 =>
            /\ ckptFile[p].kind \in {"absent", "json"}
            /\ PersistedIndex(p) = emptyAt[p]
            /\ ~PersistedCompleted(p)
            /\ (pc \in InLoop /\ Current = p /\ fetchOffsets # <<>>)
                 => fetchOffsets[1] = emptyAt[p])
  /\ [][\A p \in ProjectSet :
          (emptyAt'[p] >= 0 /\ emptyAt'[p] # emptyAt[p]) =>
            /\ pc = "request"
            /\ p = Current
            /\ emptyAt'[p] = startAt
            /\ status'[p] = "COMPLETED"
            /\ ckptFile' = ckptFile
            /\ outFile' = outFile]_vars

\* a run ended a collection on an empty page at an offset its checkpoint
\* held and the remote no longer has; the next run has fetched that offset
\* again, with the checkpoint still there and not completed
C35_Witness ==
  /\ runs >= 1
  /\ pc = "request"
  /\ emptyAt[Current] > 0
  /\ fetchOffsets = <<emptyAt[Current]>>
  /\ remoteTotal[Current] <= emptyAt[Current]
  /\ Readable(Current)
  /\ ckptFile[Current].cp.lastProcessedIndex = emptyAt[Current]
  /\ ~ckptFile[Current].cp.completed
  /\ outFile[Current] # <<>>

(* ------------------------------- C36 ----------------------------------- *)
\* monitor.ts, getProjectStats: remaining
remaining(checkpoint) == checkpoint.totalIssues - checkpoint.lastProcessedIndex

\* C36: whatever totals the remote reports from one fetch to the next, every
\* checkpoint the orchestrator persists has
\* 0 <= lastProcessedIndex <= totalIssues, so the remaining count of the
\* monitor is never negative.
C36_IndexWithinTotal ==
  /\ \A p \in ProjectSet :
       Readable(p) =>
         /\ 0 <= ckptFile[p].cp.lastProcessedIndex
         /\ ckptFile[p].cp.lastProcessedIndex <= ckptFile[p].cp.totalIssues
         /\ remaining(ckptFile[p].cp) >= 0
  /\ \A k \in 1..Len(saves) :
       /\ 0 <= saves[k].lastProcessedIndex
       /\ saves[k].lastProcessedIndex <= saves[k].totalIssues

\* two checkpoints of one collection in one run, the second persisted after
\* the remote lost records: it reports the smaller total and an index
\* within it
C36_Witness ==
  /\ Len(saves) = 2
  /\ saves[2].totalIssues < saves[1].totalIssues
  /\ saves[2].lastProcessedIndex > saves[1].lastProcessedIndex
  /\ ckptFile[saves[2].project] = Json(saves[2])

(* ------------------------------- C37 ----------------------------------- *)
\* the checkpoint file of the collection exists and does not parse
Unparsable(p) == ckptFile[p].kind \notin {"absent", "json"}

\* C37: when the checkpoint file of a collection exists but cannot be
\* parsed, loadCheckpoint fails and the collection ends in FAILED, reported,
\* in the step that loads it: no fetch is issued for it, the checkpoint files
\* and the sinks are not modified, and the loop goes on to the next
\* collection, so that a run which reaches its end has finished every
\* collection.
C37_UnparsableCheckpoint ==
  /\ [](/\ \A p \in ProjectSet :
             (Unparsable(p) /\ status[p] # "NOT_STARTED" /\ (pc \in InLoop => Current # p))
               => /\ status[p] = "FAILED"
                  /\ fetchProject # p
                  /\ \E j \in 1..Len(projectErrors) : projectErrors[j] = p
        /\ pc = "done" => \A p \in ProjectSet : Finished(p))
  /\ [][(pc = "load" /\ Unparsable(Current) /\ pc' # "down")
        => /\ status' = [status EXCEPT ![Current] = "FAILED"]
           /\ projectErrors' = Append(projectErrors, Current)
           /\ ckptFile' = ckptFile
           /\ outFile' = outFile
           /\ attempts' = attempts
           /\ fetchProject' = fetchProject
           /\ fetchOffsets' = <<>>
           /\ pi' = pi + 1
           /\ pc' = (IF pi < NumProjects THEN "load" ELSE "done")]_vars

\* the first collection has failed on a checkpoint file that does not
\* parse, which is still there, and the second has been collected after it
C37_Witness ==
  /\ pc = "done"
  /\ Unparsable(Projects[1])
  /\ status[Projects[1]] = "FAILED"
  /\ projectErrors = <<Projects[1]>>
  /\ status[Projects[2]] = "COMPLETED"
  /\ outFile[Projects[2]] # <<>>
  /\ PersistedCompleted(Projects[2])

(* ------------------------------- C38 ----------------------------------- *)
\* C38: termination. With a bounded total and every fetch answered, a run
\* of scrapeProjects ends: it reaches printStats() with every collection
\* COMPLETED or FAILED and stays there. Every loop iteration that does not
\* end the collection increases startAt by at least 1: the cursor never
\* decreases inside the loop, the step that closes the write loop increases
\* it, and the next iteration starts above the offset of the last fetch.
C38_Termination ==
  /\ <>[](pc = "done" /\ statsPrinted /\ \A p \in ProjectSet : Finished(p))
  /\ [][/\ (pc \in InLoop /\ pc' \in InLoop) => startAt' >= startAt
        /\ (pc = "write" /\ pc' = "save") => startAt' >= startAt + 1
        /\ (pc = "delay" /\ pc' = "fetch") =>
             startAt' >= fetchOffsets[Len(fetchOffsets)] + 1]_vars

\* the run has ended after a collection of three iterations
C38_Witness ==
  /\ pc = "done"
  /\ statsPrinted
  /\ \E p \in ProjectSet :
       /\ status[p] = "COMPLETED"
       /\ remoteTotal[p] > 2 * PageSize
       /\ Len(outFile[p]) >= remoteTotal[p] - 1

====
